---- MODULE Spec2Model ----
(***************************************************************************)
(* Service worker of the offline form application (FormularioServico):     *)
(* the background-sync reconciler (sincronizarPendentes) and the request   *)
(* router / cache lifecycle (install, activate, fetch listeners).          *)
(*                                                                         *)
(* The repository holds three revisions of the same worker script:         *)
(*   sw.js      drains every pending record in one pass, stores no         *)
(*              serverId;                                                  *)
(*   part_000   submits one pending record per pass, stores serverId;      *)
(*   part_001   as part_000 (other cache name, other comments).            *)
(* The revision running is the variable impl, fixed by Init.               *)
(***************************************************************************)
EXTENDS Integers, Sequences, FiniteSets, Bags, TLC

VARIABLES
    impl,       \* which revision of the worker script is running
    store,      \* object store 'formularios' of FormulariosDB: sequence of records, by id
    passes,     \* the calls of sincronizarPendentes in progress (a bag: two sync
                \* events may leave two calls in the very same state)
    ultimo,     \* the call that ended in the last step, if one did (observation only)
    gravado,    \* the db.put that completed in the last step, if one did (observation only)
    location,   \* location.hostname of the worker
    phase,      \* lifecycle of the worker: "install", "addAll", "installed",
                \* "deleting" (activate listener waiting for its deletions), "active"
    cache,      \* Cache Storage of the origin: the buckets in creation order
    fetches,    \* the fetch events in progress (a bag), cache writes behind them included
    entregue,   \* the fetch event settled in the last step, if one was (observation only)
    remoto,     \* the records the remote endpoint holds: the chave and the id each
                \* was submitted with
    anterior,   \* revision of the worker that was active before this one, "none" if none:
                \* it answers the fetch events until this one is activated
    limpeza,    \* the activate listener's cleanup: names enumerated, deletions
                \* requested and pending, failure, clients claimed
    runs        \* how each run of the install listener so far ended

syncVars == <<store, passes, ultimo, gravado, remoto>>

routerVars == <<location, phase, cache, fetches, entregue, anterior, limpeza, runs>>

vars == <<impl, store, passes, ultimo, gravado, location, phase, cache, fetches, entregue,
          anterior, limpeza, runs, remoto>>

(***************************************************************************)
(* Bounds of the model.                                                    *)
(***************************************************************************)
MaxRecords == 2     \* records in the object store
MaxPasses == 2      \* sync events whose passes may overlap
MaxFetches == 2     \* fetch events in progress at once
MaxInstalls == 2    \* runs of the install listener for one version
MaxDurante == 1     \* fetch events in progress at once while the install listener runs twice

Impls == {"sw.js", "part_000", "part_001"}

Absent == 0         \* a property the record object does not have (undefined)

\* insertId values in the remote endpoint's answers: two, so that a serverId
\* written twice can be told from one written once
InsertIds == {41, 42}

\* new Date().toISOString(): always a non-empty string; its value is not modelled
ISOString == 1

SYNC_TAG == "background-sync-formularios"

Tags == {SYNC_TAG, "outra-tag"}

Batch(i) == i = "sw.js"

(***************************************************************************)
(* Records of the object store. chaveUnica and the domain fields are       *)
(* written by the page, once per record; they are distinct per record.     *)
(***************************************************************************)
ChaveDe(i) == 100 + i

\* the fields of the form that part_000 and part_001 copy into json_dados
Campos ==
    {"cliente", "cidade", "equipamento", "tecnico", "servico",
     "dataInicial", "horaInicial", "dataFinal", "horaFinal",
     "veiculo", "estoque", "numeroSerie", "relatorioMaquina",
     "fotos", "assinaturas", "clienteNome", "tecnicoNome", "materiais"}

\* The page writes the fields in Campos together, once, and the worker never
\* assigns them: a record carries them as one value, campos, that stands for
\* the eighteen. DadosDe is campos of record i, CampoDe the field c in it.
DadosDe(i) == 200 + i

CampoDe(d, c) == <<c, d>>

\* a JavaScript value of the kind t; v is its text
Valor(t, v) == [t |-> t, v |-> v]

Null == Valor("null", "")

\* the values a record may hold in fichaPDF and relatorioPDF: a PDF as a
\* string, no property at all, the empty string, zero
PDFs == << Valor("string", "pdf"), Valor("undefined", ""), Valor("string", ""),
           Valor("number", "0") >>

FichaDe(i) == PDFs[((i - 1) % Len(PDFs)) + 1]

RelatorioDe(i) == PDFs[(i % Len(PDFs)) + 1]

NovoRegistro(i, sinc) ==
    [id |-> i, chaveUnica |-> ChaveDe(i),
     campos |-> DadosDe(i),
     fichaPDF |-> FichaDe(i), relatorioPDF |-> RelatorioDe(i),
     sincronizado |-> sinc,
     syncedAt |-> IF sinc THEN ISOString ELSE Absent,
     serverId |-> IF sinc THEN 41 ELSE Absent]

\* the fields of a record the page wrote and the reconciler only reads
Dominio(f) == [campos |-> f.campos, fichaPDF |-> f.fichaPDF, relatorioPDF |-> f.relatorioPDF]

Min(S) == CHOOSE x \in S : \A y \in S : x <= y

\* f => !f.sincronizado
PendenteTodos(f) == TRUE
Pendente(f) == ~f.sincronizado

\* forms.filter(f => !f.sincronizado)
FilterTudo(fs) == fs
Filter(fs) == SelectSeq(fs, Pendente)

\* forms.find(f => !f.sincronizado), as a sequence of at most one record
FindUltimo(fs) ==
    LET idx == {j \in 1..Len(fs) : Pendente(fs[j])}
    IN  IF idx = {} THEN << >> ELSE << fs[CHOOSE j \in idx : \A m \in idx : m <= j] >>
Find(fs) ==
    LET idx == {j \in 1..Len(fs) : Pendente(fs[j])}
    IN  IF idx = {} THEN << >> ELSE << fs[Min(idx)] >>

\* the records one pass works through, in order
Selecionar(i, fs) == IF Batch(i) THEN Filter(fs) ELSE Find(fs)

\* a value that counts as false in a condition: undefined, null, '', 0, NaN, false
Falsy(x) ==
    \/ x.t \in {"undefined", "null"}
    \/ x.t = "string" /\ x.v = ""
    \/ x.t = "number" /\ x.v \in {"0", "NaN"}
    \/ x.t = "boolean" /\ x.v = "false"

\* x || null
OrNull(x) == IF Falsy(x) THEN Null ELSE x

\* json_dados: sw.js sends the id, fichaPDF || null, relatorioPDF || null and
\* chaveUnica; part_000 and part_001 send the id, each of the form's fields
\* in Campos as it is, and chaveUnica
JsonDados(i, f) ==
    IF Batch(i)
    THEN [id |-> f.id, fichaPDF |-> OrNull(f.fichaPDF),
          relatorioPDF |-> OrNull(f.relatorioPDF), chaveUnica |-> f.chaveUnica]
    ELSE [id |-> f.id, chaveUnica |-> f.chaveUnica]
             @@ [c \in Campos |-> CampoDe(f.campos, c)]

\* the POST body: json_dados, and chaveUnica again as chave
PayloadSemChave(i, f) == [json_dados |-> JsonDados(i, f), chave |-> Absent]
Payload(i, f) == [json_dados |-> JsonDados(i, f), chave |-> f.chaveUnica]

\* the success branch's assignments to the record object
Marcar(i, f, insertId) ==
    IF Batch(i)
    THEN [f EXCEPT !.sincronizado = TRUE, !.syncedAt = ISOString]
    ELSE [f EXCEPT !.sincronizado = TRUE, !.syncedAt = ISOString, !.serverId = insertId]

\* db.put('formularios', form): upsert keyed by form.id
PutAcrescenta(s, f) == Append(s, f)
Put(s, f) ==
    IF f.id \in DOMAIN s THEN [s EXCEPT ![f.id] = f] ELSE s @@ (f.id :> f)

\* catch (err): the error is logged and the call returns
Rejeita == "rejected"
Catch == "caught"

NenhumPendente(s) == \A j \in DOMAIN s : s[j].sincronizado

(***************************************************************************)
(* One call of sincronizarPendentes:                                       *)
(*   pc       the await at which it is suspended                           *)
(*   forms    the array read by db.getAll                                  *)
(*   k        position of the loop in the selected records                 *)
(*   form     the record object being processed                            *)
(*   resp     insertId of the success response in hand, in the revisions   *)
(*            that read it (sw.js never parses the response)               *)
(* and, for the properties only:                                           *)
(*   vazia    the store held no pending record when the call was made      *)
(*   sozinho  no other call has been in progress during this one           *)
(*   stored   the store's flag of the record in form, when its POST left   *)
(*   res      the records answered so far, with "ok" or "erro"             *)
(*   fim      how the call ended: "" while in progress, then "returned"    *)
(*            or "caught"                                                  *)
(*   em       where the error caught was thrown: the await, or "stringify" *)
(***************************************************************************)
NovaChamada(s, so) ==
    [pc |-> "openDB", forms |-> << >>, k |-> 0, form |-> << >>, resp |-> Absent,
     vazia |-> NenhumPendente(s), sozinho |-> so, stored |-> FALSE, res |-> {},
     fim |-> "", em |-> ""]

Nenhuma == [pc |-> "none"]

NaoGravou == [id |-> Absent]

Running == BagToSet(passes)

\* the call x goes on as y
Segue(x, y) ==
    /\ passes' = (passes (-) SetToBag({x})) (+) SetToBag({y})
    /\ ultimo' = Nenhuma

\* the call x is over, ending as y
Termina(x, y, como) ==
    /\ passes' = passes (-) SetToBag({x})
    /\ ultimo' = [y EXCEPT !.pc = "done", !.stored = FALSE, !.fim = como,
                            !.form = << >>, !.resp = Absent]

\* the call x ends in catch (err)
Falha(x) == Termina(x, [x EXCEPT !.em = x.pc], Catch)

\* records are left to process after position j
Resta(x, j) == j < Len(Selecionar(impl, x.forms))

(***************************************************************************)
(* The loop head at position j of the selected records: either the call    *)
(* returns, or the payload of the j-th record is built and serialised      *)
(* (JSON.stringify may throw) and its POST is issued. x is the call before *)
(* the step, y the call with the step's updates so far, s the store then.  *)
(***************************************************************************)
Avanca(x, y, j, strOk, s) ==
    LET sel == Selecionar(impl, y.forms)
    IN  IF j > Len(sel) THEN Termina(x, y, "returned")
        ELSE IF ~strOk
               THEN Termina(x, [y EXCEPT !.k = j, !.form = sel[j], !.em = "stringify"], Catch)
        ELSE Segue(x, [y EXCEPT !.pc = "fetch", !.k = j, !.form = sel[j],
                                !.resp = Absent,
                                !.stored = s[sel[j].id].sincronizado])

(***************************************************************************)
(* sync listener: only the tag background-sync-formularios starts a call;  *)
(* any other tag does nothing.                                             *)
(***************************************************************************)
SyncEvent(tag) ==
    /\ BagCardinality(passes) < MaxPasses
    /\ IF tag = SYNC_TAG
       THEN /\ passes' =
                 LET outros == BagToSet(passes)
                     marcado(x) == [x EXCEPT !.sozinho = FALSE]
                     marcados ==
                         [y \in {marcado(x) : x \in outros} |->
                            LET n0 == {x \in outros : marcado(x) = y}
                                Soma[S \in SUBSET n0] ==
                                    IF S = {} THEN 0
                                    ELSE LET e == CHOOSE e \in S : TRUE
                                         IN  CopiesIn(e, passes) + Soma[S \ {e}]
                            IN  Soma[n0]]
                 IN  marcados (+) SetToBag({NovaChamada(store, outros = {})})
            /\ ultimo' = Nenhuma
       ELSE UNCHANGED <<passes, ultimo>>
    /\ gravado' = IF tag = SYNC_TAG THEN NaoGravou ELSE gravado
    /\ UNCHANGED <<impl, store, remoto, routerVars>>

\* await idb.openDB('FormulariosDB', 4)
OpenDB(x, ok) ==
    /\ x.pc = "openDB"
    /\ IF ok THEN Segue(x, [x EXCEPT !.pc = "getAll"]) ELSE Falha(x)
    /\ gravado' = NaoGravou
    /\ UNCHANGED <<impl, store, remoto, routerVars>>

\* await db.getAll('formularios') fails
GetAllFail(x) ==
    /\ x.pc = "getAll"
    /\ Falha(x)
    /\ gravado' = NaoGravou
    /\ UNCHANGED <<impl, store, remoto, routerVars>>

\* await db.getAll('formularios'): the scan in key order; then filter / find
\* and the first POST
GetAll(x, strOk) ==
    /\ x.pc = "getAll"
    /\ strOk \/ Resta([x EXCEPT !.forms = store], 0)
    /\ Avanca(x, [x EXCEPT !.forms = store], 1, strOk, store)
    /\ gravado' = NaoGravou
    /\ UNCHANGED <<impl, store, remoto, routerVars>>

(***************************************************************************)
(* The remote endpoint, as the specification describes it: it keeps one    *)
(* record per chave and answers a repeated chave without inserting.        *)
(***************************************************************************)
Recebe(r, p) ==
    IF \E e \in r : e.chave = p.chave
    THEN r
    ELSE r \cup {[chave |-> p.chave, id |-> p.json_dados.id]}

(***************************************************************************)
(* await fetch(...): the POST settles with an exception (the request may   *)
(* have reached the endpoint and its response been lost), with a           *)
(* non-success status (the endpoint has refused it), or with a success     *)
(* status (the body carries insertId).                                     *)
(***************************************************************************)
FetchThrow(x, chegou) ==
    /\ x.pc = "fetch"
    /\ Falha(x)
    /\ gravado' = NaoGravou
    /\ remoto' = IF chegou THEN Recebe(remoto, Payload(impl, x.form)) ELSE remoto
    /\ UNCHANGED <<impl, store, routerVars>>

\* !response.ok: console.warn; the loop goes on
FetchErro(x, strOk) ==
    /\ x.pc = "fetch"
    /\ strOk \/ Resta(x, x.k)
    /\ Avanca(x, [x EXCEPT !.res = @ \cup {<<x.form.id, "erro">>}], x.k + 1, strOk, store)
    /\ gravado' = NaoGravou
    /\ UNCHANGED <<impl, store, remoto, routerVars>>

\* response.ok: sw.js marks the object and calls db.put; part_000 and part_001
\* call response.json() first
FetchOk(x, insertId) ==
    /\ x.pc = "fetch"
    /\ Segue(x, [x EXCEPT !.pc = IF Batch(impl) THEN "put" ELSE "json",
                          !.form = IF Batch(impl) THEN Marcar(impl, @, insertId) ELSE @,
                          !.resp = IF Batch(impl) THEN Absent ELSE insertId,
                          !.res = @ \cup {<<x.form.id, "ok">>},
                          !.stored = FALSE])
    /\ gravado' = NaoGravou
    /\ remoto' = Recebe(remoto, Payload(impl, x.form))
    /\ UNCHANGED <<impl, store, routerVars>>

\* const data = await response.json(); then mark the object and call db.put
JsonSettle(x, ok) ==
    /\ x.pc = "json"
    /\ IF ok
       THEN Segue(x, [x EXCEPT !.pc = "put", !.form = Marcar(impl, @, x.resp)])
       ELSE Falha(x)
    /\ gravado' = NaoGravou
    /\ UNCHANGED <<impl, store, remoto, routerVars>>

\* await db.put('formularios', form) fails
PutFail(x) ==
    /\ x.pc = "put"
    /\ Falha(x)
    /\ gravado' = NaoGravou
    /\ UNCHANGED <<impl, store, remoto, routerVars>>

\* await db.put('formularios', form); then the next record, or the end
PutSettle(x, strOk) ==
    /\ x.pc = "put"
    /\ strOk \/ Resta(x, x.k)
    /\ store' = Put(store, x.form)
    /\ gravado' = [id |-> x.form.id, insertId |-> x.resp,
                   lido |-> x.forms[x.form.id], antes |-> store[x.form.id]]
    /\ Avanca(x, x, x.k + 1, strOk, Put(store, x.form))
    /\ UNCHANGED <<impl, remoto, routerVars>>

(***************************************************************************)
(* Request router and cache lifecycle.                                     *)
(*                                                                         *)
(* A hostname is the sequence of its pieces; String.includes is the test   *)
(* for a contiguous run of pieces.                                         *)
(***************************************************************************)
CACHE_NAME(i) ==
    CASE i = "sw.js" -> "formulario-cache-v002"
      [] i = "part_000" -> "formulario-cache-v0051"
      [] i = "part_001" -> "formulario-cache-v020"

BACKEND_HOST == <<"vps", ".", "pesoexato", ".", "com">>

CDNJS == <<"cdnjs">>

CDN_JSDELIVR == <<"cdn", ".", "jsdelivr", ".", "net">>

CDN_TAILWIND == <<"cdn", ".", "tailwindcss", ".", "com">>

\* the hostnames the worker may be served from
Locations == { <<"formularios", ".", "example">>, <<"cdnjs", ".", "example">> }

OTHER_HOST == <<"fonts", ".", "example">>

Includes(h, n) ==
    \E i \in 0..(Len(h) - Len(n)) : SubSeq(h, i + 1, i + Len(n)) = n

IsBackend(h) == h = BACKEND_HOST

IsCDN(h) == Includes(h, CDNJS) \/ Includes(h, CDN_JSDELIVR) \/ Includes(h, CDN_TAILWIND)

\* CORE_ASSETS, resolved against the worker's location
CORE_ASSETS(loc) == << <<loc, "/">>, <<loc, "/index.html">>, <<loc, "/manifest.json">>,
                       <<loc, "/sw.js">> >>

\* './index.html', resolved against the worker's location
INDEX_URL(loc) == <<loc, "/index.html">>

\* the requests the pages make
Requests(loc) ==
    { [method |-> "GET", url |-> <<BACKEND_HOST, "/servico_get">>, mode |-> "cors"],
      [method |-> "GET", url |-> <<CDN_JSDELIVR, "/npm/idb@8/build/umd.js">>, mode |-> "no-cors"],
      [method |-> "GET", url |-> <<loc, "/historico.html">>, mode |-> "navigate"],
      [method |-> "GET", url |-> <<loc, "/dados.json">>, mode |-> "cors"],
      [method |-> "POST", url |-> <<loc, "/dados.json">>, mode |-> "cors"],
      [method |-> "GET", url |-> <<OTHER_HOST, "/fonte.woff2">>, mode |-> "no-cors"] }

Response(u, st, b) == [tipo |-> "response", url |-> u, status |-> st, body |-> b]

Undefined == [tipo |-> "undefined"]

\* a rejected promise: fetch threw
Lancou == [tipo |-> "rejection"]

\* a rejected promise: caches.match failed
MatchLancou == [tipo |-> "rejection", de |-> "caches.match"]

\* the event was left to the browser: respondWith was not called
Default == [tipo |-> "default"]

\* new Response('Offline', { status: 503 })
Offline == Response(<< >>, 503, "Offline")

\* how fetch(request) may settle
Outcomes(req) == {Lancou, Response(req.url, 200, "novo"), Response(req.url, 500, "erro")}

\* caches.match(u): the first bucket, in creation order, that holds u
Match(cs, u) ==
    LET idx == {i \in 1..Len(cs) : u \in DOMAIN cs[i].entries}
    IN  IF idx = {} THEN Undefined ELSE cs[Min(idx)].entries[u]

\* caches.open(name): the bucket is created when it does not exist
OpenSempre(cs, name) == Append(cs, [name |-> name, entries |-> << >>])
Open(cs, name) ==
    IF \E i \in 1..Len(cs) : cs[i].name = name
    THEN cs
    ELSE Append(cs, [name |-> name, entries |-> << >>])

\* cache.put(u, r) on the bucket name: any entry of u is overwritten
PutIn(cs, name, u, r) ==
    [i \in 1..Len(cs) |->
        IF cs[i].name = name THEN [cs[i] EXCEPT !.entries = (u :> r) @@ @] ELSE cs[i]]

\* cache.addAll(urls) on the bucket name, every fetch having succeeded
RECURSIVE AddAll(_, _, _)
AddAll(cs, name, urls) ==
    IF urls = << >> THEN cs
    ELSE AddAll(PutIn(cs, name, Head(urls), Response(Head(urls), 200, "instalado")),
                name, Tail(urls))

\* the entry of u in the bucket name
Entry(cs, name, u) ==
    LET idx == {i \in 1..Len(cs) : cs[i].name = name /\ u \in DOMAIN cs[i].entries}
    IN  IF idx = {} THEN Undefined ELSE cs[Min(idx)].entries[u]

\* the branch of the fetch listener a request takes
ClassificaOrigemPrimeiro(req, loc) ==
    IF req.method # "GET" THEN "none"
    ELSE IF IsBackend(req.url[1]) THEN "network-only"
    ELSE IF req.url[1] = loc THEN "network-first"
    ELSE IF IsCDN(req.url[1]) THEN "cache-first"
    ELSE "none"
ClassificaSemBackend(req, loc) ==
    IF req.method # "GET" THEN "none"
    ELSE IF IsCDN(req.url[1]) THEN "cache-first"
    ELSE IF req.url[1] = loc THEN "network-first"
    ELSE "none"
Classifica(req, loc) ==
    IF req.method # "GET" THEN "none"
    ELSE IF IsBackend(req.url[1]) THEN "network-only"
    ELSE IF IsCDN(req.url[1]) THEN "cache-first"
    ELSE IF req.url[1] = loc THEN "network-first"
    ELSE "none"

\* cached || fetch(event.request): the cached response is returned when there is one
CacheFirstNunca(cached) == FALSE
CacheFirst(cached) == cached # Undefined

(***************************************************************************)
(* One fetch event:                                                        *)
(*   req      event.request                                                *)
(*   via      the branch taken                                             *)
(*   pc       the promise it waits for: "net" (network-only fetch),        *)
(*            "match", "cdn_net" (cache-first), "so_net", "so_match",      *)
(*            "so_root" (network-first), "open", "put" (the cache write    *)
(*            left behind the response)                                    *)
(*   rede     how its network fetch settled                                *)
(*   cached   what caches.match(event.request) gave                        *)
(*   clone    the copy of the response kept for the cache                  *)
(*   net, reads, writes   network fetches, cache reads and cache writes    *)
(*            it has called (for the properties only)                      *)
(*   answers  times the promise given to respondWith has settled (for the  *)
(*            properties only)                                             *)
(***************************************************************************)
Nada == [tipo |-> "none"]

NovoFetch(req, via, w) ==
    [req |-> req, via |-> via, worker |-> w, pc |-> "", rede |-> Nada, cached |-> Nada,
     clone |-> Nada, net |-> 0, reads |-> 0, writes |-> 0, answers |-> 0]

NaoEntregue == [via |-> "nothing"]

Fetching == BagToSet(fetches)

\* the event f settles with r and is over
Entrega(f, g, r) ==
    /\ fetches' = fetches (-) SetToBag({f})
    /\ entregue' = [req |-> g.req, via |-> g.via, worker |-> g.worker, resposta |-> r,
                    rede |-> g.rede, cached |-> g.cached, net |-> g.net,
                    reads |-> g.reads, writes |-> g.writes, answers |-> g.answers + 1]

\* the event f settles with r, and goes on as g
EntregaESegue(f, g, r) ==
    /\ fetches' = (fetches (-) SetToBag({f})) (+) SetToBag({[g EXCEPT !.answers = @ + 1]})
    /\ entregue' = [req |-> g.req, via |-> g.via, worker |-> g.worker, resposta |-> r,
                    rede |-> g.rede, cached |-> g.cached, net |-> g.net,
                    reads |-> g.reads, writes |-> g.writes, answers |-> g.answers + 1]

\* the event f goes on as g
Continua(f, g) ==
    /\ fetches' = (fetches (-) SetToBag({f})) (+) SetToBag({g})
    /\ entregue' = NaoEntregue

\* network-first, the fetch having succeeded: the response is cloned, the write
\* of the clone is started with caches.open(CACHE_NAME), the response is returned
RefreshCacheEsquecido(f, response) ==
    [f EXCEPT !.pc = "forgotten", !.rede = response]
RefreshCache(f, response) ==
    [f EXCEPT !.pc = "open", !.rede = response, !.clone = response, !.writes = @ + 1]

(***************************************************************************)
(* install listener                                                        *)
(***************************************************************************)
\* how a run of the install listener ended: the assets cached, or the
\* rejection of caches.open or of cache.addAll caught by the .catch
Cacheou == "cached"

OpenFalhou == "open failed"

AddAllFalhou == "addAll failed"

\* caches.open(CACHE_NAME): the bucket is there from now on; or the promise
\* rejects, the .catch logs it, cache.addAll is not called, then self.skipWaiting()
InstallOpen(ok) ==
    /\ phase = "install"
    /\ cache' = IF ok THEN Open(cache, CACHE_NAME(impl)) ELSE cache
    /\ phase' = IF ok THEN "addAll" ELSE "installed"
    /\ runs' = IF ok THEN runs ELSE Append(runs, OpenFalhou)
    /\ entregue' = NaoEntregue
    /\ UNCHANGED <<impl, syncVars, location, fetches, anterior, limpeza>>

\* cache.addAll(CORE_ASSETS): all the assets or none; a failure is caught;
\* then self.skipWaiting()
InstallAddAll(ok) ==
    /\ phase = "addAll"
    /\ cache' = IF ok THEN AddAll(cache, CACHE_NAME(impl), CORE_ASSETS(location)) ELSE cache
    /\ phase' = "installed"
    /\ runs' = Append(runs, IF ok THEN Cacheou ELSE AddAllFalhou)
    /\ entregue' = NaoEntregue
    /\ UNCHANGED <<impl, syncVars, location, fetches, anterior, limpeza>>

\* the install listener runs again for the same version (the script is
\* registered anew); the instance that was active answers the fetch events
\* meanwhile
Reinstall ==
    /\ phase = "active"
    /\ Len(runs) < MaxInstalls
    /\ limpeza.pendentes = {}
    /\ phase' = "install"
    /\ anterior' = impl
    /\ limpeza' = [nomes |-> {}, pedidos |-> {}, pendentes |-> {}, falhou |-> FALSE,
                   claimed |-> FALSE]
    /\ entregue' = NaoEntregue
    /\ UNCHANGED <<impl, syncVars, location, cache, fetches, runs>>

(***************************************************************************)
(* activate listener:                                                      *)
(*   caches.keys().then(names => Promise.all(names.map(name =>             *)
(*       name !== CACHE_NAME ? caches.delete(name) : undefined)))          *)
(*     .then(() => self.clients.claim())                                   *)
(* limpeza holds                                                           *)
(*   nomes      the names caches.keys gave                                 *)
(*   pedidos    the names caches.delete was called with                    *)
(*   pendentes  the deletions that have not settled                        *)
(*   falhou     caches.keys or a deletion rejected                         *)
(*   claimed    self.clients.claim() was called                            *)
(***************************************************************************)
SemLimpeza ==
    [nomes |-> {}, pedidos |-> {}, pendentes |-> {}, falhou |-> FALSE, claimed |-> FALSE]

IsCurrent(b) == b.name = CACHE_NAME(impl)

Names(cs) == {cs[i].name : i \in 1..Len(cs)}

\* names.map(name => { if (name !== CACHE_NAME) return caches.delete(name); })
ApagarTodos(nomes, atual) == nomes
Apagar(nomes, atual) == {n \in nomes : n # atual}

\* caches.delete(name): the bucket leaves Cache Storage
Delete(cs, name) ==
    LET Fica(b) == b.name # name
    IN  SelectSeq(cs, Fica)

\* a Cache object obtained from caches.open(name) before the bucket was deleted
\* stays usable, and is no longer part of Cache Storage
Desliga(f, name) ==
    IF f.pc = "put" /\ CACHE_NAME(f.worker) = name THEN [f EXCEPT !.pc = "put_detached"] ELSE f

DesligaTodos(fs, name) ==
    LET antes == BagToSet(fs)
    IN  [g \in {Desliga(f, name) : f \in antes} |->
            LET n0 == {f \in antes : Desliga(f, name) = g}
                Soma[S \in SUBSET n0] ==
                    IF S = {} THEN 0
                    ELSE LET e == CHOOSE e \in S : TRUE
                         IN  CopiesIn(e, fs) + Soma[S \ {e}]
            IN  Soma[n0]]

\* .then(() => self.clients.claim()) runs when Promise.all has fulfilled
PodeReivindicarCedo(l) == ~l.falhou /\ (l.pedidos = {} \/ l.pendentes # l.pedidos)
PodeReivindicar(l) == l.pendentes = {} /\ ~l.falhou

\* caches.keys() settles; on success every deletion is requested at once
ActivateKeys(ok) ==
    /\ phase = "installed"
    /\ IF ok
       THEN /\ limpeza' = [nomes |-> Names(cache),
                           pedidos |-> Apagar(Names(cache), CACHE_NAME(impl)),
                           pendentes |-> Apagar(Names(cache), CACHE_NAME(impl)),
                           falhou |-> FALSE, claimed |-> FALSE]
            /\ phase' = "deleting"
       ELSE \* the promise given to waitUntil rejects; the worker is activated all the same
            /\ limpeza' = [SemLimpeza EXCEPT !.falhou = TRUE]
            /\ phase' = "active"
    /\ entregue' = NaoEntregue
    /\ UNCHANGED <<impl, syncVars, location, cache, fetches, anterior, runs>>

\* one caches.delete(name) settles
DeleteSettle(name, ok) ==
    /\ name \in limpeza.pendentes
    /\ cache' = IF ok THEN Delete(cache, name) ELSE cache
    /\ fetches' = IF ok THEN DesligaTodos(fetches, name) ELSE fetches
    /\ limpeza' = [limpeza EXCEPT !.pendentes = @ \ {name}, !.falhou = @ \/ ~ok]
    /\ entregue' = NaoEntregue
    /\ UNCHANGED <<impl, syncVars, location, phase, anterior, runs>>

\* Promise.all has fulfilled: self.clients.claim(), and the worker is active
Claim ==
    /\ phase = "deleting"
    /\ PodeReivindicar(limpeza)
    /\ limpeza' = [limpeza EXCEPT !.claimed = TRUE]
    /\ phase' = "active"
    /\ entregue' = NaoEntregue
    /\ UNCHANGED <<impl, syncVars, location, cache, fetches, anterior, runs>>

\* Promise.all has rejected with the first deletion that failed: the second
\* .then is skipped, the promise given to waitUntil rejects, and the worker is
\* activated all the same; the other deletions go on
ActivateFail ==
    /\ phase = "deleting"
    /\ limpeza.falhou
    /\ phase' = "active"
    /\ entregue' = NaoEntregue
    /\ UNCHANGED <<impl, syncVars, location, cache, fetches, anterior, limpeza, runs>>

\* the worker the fetch events are dispatched to: this one once it is active,
\* the one before it until this one starts activating, none in between (the
\* events wait for the activation to end)
Atende ==
    IF phase = "active" THEN impl
    ELSE IF phase \in {"install", "addAll", "installed"} THEN anterior
    ELSE "none"

(***************************************************************************)
(* fetch listener                                                          *)
(***************************************************************************)
FetchEvent(req) ==
    /\ Atende # "none"
    /\ BagCardinality(fetches) < MaxFetches
    /\ LET via == Classifica(req, location)
           f == NovoFetch(req, via, Atende)
       IN  CASE via = "none" ->
                  \* return without respondWith
                  /\ entregue' = [req |-> req, via |-> via, worker |-> Atende,
                                  resposta |-> Default, rede |-> Nada, cached |-> Nada,
                                  net |-> 0, reads |-> 0, writes |-> 0, answers |-> 0]
                  /\ UNCHANGED fetches
             [] via = "network-only" ->
                  \* event.respondWith(fetch(event.request))
                  /\ fetches' = fetches (+) SetToBag({[f EXCEPT !.pc = "net", !.net = 1]})
                  /\ entregue' = NaoEntregue
             [] via = "cache-first" ->
                  \* caches.match(event.request)
                  /\ fetches' = fetches (+) SetToBag({[f EXCEPT !.pc = "match", !.reads = 1]})
                  /\ entregue' = NaoEntregue
             [] via = "network-first" ->
                  \* fetch(event.request)
                  /\ fetches' = fetches (+) SetToBag({[f EXCEPT !.pc = "so_net", !.net = 1]})
                  /\ entregue' = NaoEntregue
    /\ UNCHANGED <<impl, syncVars, location, phase, cache, anterior, limpeza, runs>>

\* network-only: whatever fetch settles with is the answer
NetSettle(f, out) ==
    /\ f.pc = "net"
    /\ Entrega(f, [f EXCEPT !.rede = out], out)
    /\ UNCHANGED <<impl, syncVars, location, phase, cache, anterior, limpeza, runs>>

\* cache-first: .then(cached => cached || fetch(event.request)); when
\* caches.match rejects, the .then is skipped and the rejection is the answer
CdnMatch(f, ok) ==
    /\ f.pc = "match"
    /\ LET cached == Match(cache, f.req.url)
       IN  IF ~ok
           THEN Entrega(f, [f EXCEPT !.cached = MatchLancou], MatchLancou)
           ELSE IF CacheFirst(cached)
           THEN Entrega(f, [f EXCEPT !.cached = cached], cached)
           ELSE Continua(f, [f EXCEPT !.pc = "cdn_net", !.cached = cached, !.net = @ + 1])
    /\ UNCHANGED <<impl, syncVars, location, phase, cache, anterior, limpeza, runs>>

\* cache-first, no entry: whatever fetch settles with is the answer
CdnNetSettle(f, out) ==
    /\ f.pc = "cdn_net"
    /\ Entrega(f, [f EXCEPT !.rede = out], out)
    /\ UNCHANGED <<impl, syncVars, location, phase, cache, anterior, limpeza, runs>>

\* network-first: fetch settles; .then(response => ...) or .catch(() => ...)
SoNetSettle(f, out) ==
    /\ f.pc = "so_net"
    /\ IF out # Lancou
       THEN EntregaESegue(f, RefreshCache(f, out), out)
       ELSE \* caches.match(event.request)
            Continua(f, [f EXCEPT !.pc = "so_match", !.rede = out, !.reads = @ + 1])
    /\ UNCHANGED <<impl, syncVars, location, phase, cache, anterior, limpeza, runs>>

\* network-first, offline: .then(cached => ...); when caches.match rejects,
\* nothing after the .catch handles it and the rejection is the answer
SoMatch(f, ok) ==
    /\ f.pc = "so_match"
    /\ LET cached == Match(cache, f.req.url)
           g == [f EXCEPT !.cached = cached]
       IN  IF ~ok THEN Entrega(f, [f EXCEPT !.cached = MatchLancou], MatchLancou)
           ELSE IF cached # Undefined THEN Entrega(f, g, cached)
           ELSE IF f.req.mode = "navigate"
           THEN \* caches.match('./index.html')
                Continua(f, [g EXCEPT !.pc = "so_root", !.reads = @ + 1])
           ELSE Entrega(f, g, Offline)
    /\ UNCHANGED <<impl, syncVars, location, phase, cache, anterior, limpeza, runs>>

\* network-first, offline, navigation: what caches.match('./index.html')
\* gives, its rejection included
SoRoot(f, ok) ==
    /\ f.pc = "so_root"
    /\ Entrega(f, f, IF ok THEN Match(cache, INDEX_URL(location)) ELSE MatchLancou)
    /\ UNCHANGED <<impl, syncVars, location, phase, cache, anterior, limpeza, runs>>

\* the write left behind: caches.open(CACHE_NAME) settles; when it rejects
\* no bucket is opened, cache.put is not called and nothing handles the
\* rejection
CacheOpen(f, ok) ==
    /\ f.pc = "open"
    /\ cache' = IF ok THEN Open(cache, CACHE_NAME(f.worker)) ELSE cache
    /\ IF ok
       THEN Continua(f, [f EXCEPT !.pc = "put"])
       ELSE /\ fetches' = fetches (-) SetToBag({f})
            /\ entregue' = NaoEntregue
    /\ UNCHANGED <<impl, syncVars, location, phase, anterior, limpeza, runs>>

\* the write left behind: cache.put(event.request, clone) settles
CachePut(f, ok) ==
    /\ f.pc \in {"put", "put_detached"}
    /\ cache' = IF ok /\ f.pc = "put"
              THEN PutIn(cache, CACHE_NAME(f.worker), f.req.url, f.clone)
              ELSE cache
    /\ fetches' = fetches (-) SetToBag({f})
    /\ entregue' = NaoEntregue
    /\ UNCHANGED <<impl, syncVars, location, phase, anterior, limpeza, runs>>

(***************************************************************************)
(* Specifications.                                                         *)
(***************************************************************************)
\* the entries Cache Storage may hold for the bucket CACHE_NAME before the
\* worker is installed: it is storage of the origin, kept across worker
\* restarts and written by the pages as well
Antigas == { << >>,
             (<<CDN_JSDELIVR, "/npm/idb@8/build/umd.js">> :>
                  Response(<<CDN_JSDELIVR, "/npm/idb@8/build/umd.js">>, 200, "antigo")) @@
             (<<BACKEND_HOST, "/servico_get">> :>
                  Response(<<BACKEND_HOST, "/servico_get">>, 200, "antigo")) }

\* Cache Storage as the install listener of revision v leaves it
Instalado(v, loc) ==
    AddAll(<< [name |-> CACHE_NAME(v), entries |-> << >>] >>, CACHE_NAME(v), CORE_ASSETS(loc))

SyncParado ==
    /\ store = << >>
    /\ remoto = {}
    /\ passes = EmptyBag
    /\ ultimo = Nenhuma
    /\ gravado = NaoGravou

RouterParado ==
    /\ location = <<"formularios", ".", "example">>
    /\ phase = "active"
    /\ cache = << >>
    /\ fetches = EmptyBag
    /\ entregue = NaoEntregue
    /\ anterior = "none"
    /\ limpeza = SemLimpeza
    /\ runs = << >>

InitSync ==
    /\ impl \in Impls
    /\ \E n \in 0..MaxRecords :
         store \in {s \in [1..n -> UNION {{NovoRegistro(i, b) : b \in BOOLEAN} : i \in 1..n}] :
                      \A i \in 1..n : s[i].id = i}
    /\ passes = EmptyBag
    /\ ultimo = Nenhuma
    /\ gravado = NaoGravou
    /\ remoto = {[chave |-> store[i].chaveUnica, id |-> i] : i \in {j \in DOMAIN store : store[j].sincronizado}}
    /\ RouterParado

NextSync ==
    \/ \E tag \in Tags : SyncEvent(tag)
    \/ \E x \in Running, ok \in BOOLEAN : OpenDB(x, ok)
    \/ \E x \in Running : GetAllFail(x)
    \/ \E x \in Running, strOk \in BOOLEAN : GetAll(x, strOk)
    \/ \E x \in Running, chegou \in BOOLEAN : FetchThrow(x, chegou)
    \/ \E x \in Running, strOk \in BOOLEAN : FetchErro(x, strOk)
    \/ \E x \in Running, n \in InsertIds : FetchOk(x, n)
    \/ \E x \in Running, ok \in BOOLEAN : JsonSettle(x, ok)
    \/ \E x \in Running : PutFail(x)
    \/ \E x \in Running, strOk \in BOOLEAN : PutSettle(x, strOk)

SpecSync == InitSync /\ [][NextSync]_vars

(***************************************************************************)
(* The reconciler under sync events that keep recurring, with nothing      *)
(* failing, against an endpoint that refuses the records in Recusados on   *)
(* every attempt and accepts every other record.                           *)
(***************************************************************************)
Recusados == {1}

PassStep ==
    \/ \E x \in Running : OpenDB(x, TRUE)
    \/ \E x \in Running : GetAll(x, TRUE)
    \/ \E x \in Running, n \in InsertIds :
          x.pc = "fetch" /\ x.form.id \notin Recusados /\ FetchOk(x, n)
    \/ \E x \in Running :
          x.pc = "fetch" /\ x.form.id \in Recusados /\ FetchErro(x, TRUE)
    \/ \E x \in Running : JsonSettle(x, TRUE)
    \/ \E x \in Running : PutSettle(x, TRUE)

NextRecurring ==
    \/ SyncEvent(SYNC_TAG)
    \/ PassStep

SpecRecurring ==
    /\ InitSync
    /\ [][NextRecurring]_vars
    /\ WF_vars(SyncEvent(SYNC_TAG))
    /\ WF_vars(PassStep)

InitRouter ==
    /\ impl \in Impls
    /\ SyncParado
    /\ location \in Locations
    /\ phase = "install"
    /\ anterior = "none"
    /\ \E e \in Antigas :
         cache = IF e = << >> THEN << >>
                 ELSE << [name |-> CACHE_NAME(impl), entries |-> e] >>
    /\ fetches = EmptyBag
    /\ entregue = NaoEntregue
    /\ limpeza = SemLimpeza
    /\ runs = << >>

\* entregue is an observation, not state of the worker: it is dropped in a
\* step of its own before anything else happens
Esquece ==
    /\ entregue # NaoEntregue
    /\ entregue' = NaoEntregue
    /\ UNCHANGED <<impl, syncVars, location, phase, cache, fetches, anterior, limpeza, runs>>

NextRouter ==
    \/ Esquece
    \/ /\ entregue = NaoEntregue
       /\ \/ \E ok \in BOOLEAN : InstallOpen(ok)
          \/ \E ok \in BOOLEAN : InstallAddAll(ok)
          \/ \E ok \in BOOLEAN : ActivateKeys(ok)
          \/ Claim
          \/ \E req \in Requests(location) : FetchEvent(req)
          \/ \E f \in Fetching : \E out \in Outcomes(f.req) : NetSettle(f, out)
          \/ \E f \in Fetching, ok \in BOOLEAN : CdnMatch(f, ok)
          \/ \E f \in Fetching : \E out \in Outcomes(f.req) : CdnNetSettle(f, out)
          \/ \E f \in Fetching : \E out \in Outcomes(f.req) : SoNetSettle(f, out)
          \/ \E f \in Fetching, ok \in BOOLEAN : SoMatch(f, ok)
          \/ \E f \in Fetching, ok \in BOOLEAN : SoRoot(f, ok)
          \/ \E f \in Fetching, ok \in BOOLEAN : CacheOpen(f, ok)
          \/ \E f \in Fetching, ok \in BOOLEAN : CachePut(f, ok)

SpecRouter == InitRouter /\ [][NextRouter]_vars

\* the pages' navigations to the worker's own host
OwnRequests(loc) ==
    {req \in Requests(loc) : req.method = "GET" /\ req.url[1] = loc /\ req.mode = "navigate"}

\* this revision is installed while the revision before it is active
InitUpgrade ==
    /\ impl \in Impls
    /\ SyncParado
    /\ location = <<"formularios", ".", "example">>
    /\ phase = "install"
    /\ anterior \in Impls \ {impl}
    /\ cache = Instalado(anterior, location)
    /\ fetches = EmptyBag
    /\ entregue = NaoEntregue
    /\ limpeza = SemLimpeza
    /\ runs = << >>

NextUpgrade ==
    \/ Esquece
    \/ /\ entregue = NaoEntregue
       /\ \/ \E ok \in BOOLEAN : InstallOpen(ok)
          \/ \E ok \in BOOLEAN : InstallAddAll(ok)
          \/ \E ok \in BOOLEAN : ActivateKeys(ok)
          \/ \E name \in limpeza.pendentes, ok \in BOOLEAN : DeleteSettle(name, ok)
          \/ Claim
          \/ ActivateFail
          \/ \E req \in OwnRequests(location) : FetchEvent(req)
          \/ \E f \in Fetching : \E out \in Outcomes(f.req) : SoNetSettle(f, out)
          \/ \E f \in Fetching, ok \in BOOLEAN : SoMatch(f, ok)
          \/ \E f \in Fetching, ok \in BOOLEAN : SoRoot(f, ok)
          \/ \E f \in Fetching, ok \in BOOLEAN : CacheOpen(f, ok)
          \/ \E f \in Fetching, ok \in BOOLEAN : CachePut(f, ok)

SpecUpgrade == InitUpgrade /\ [][NextUpgrade]_vars

\* the URLs the network-first branch writes to the bucket
OwnUrls(loc) == {req.url : req \in {r \in Requests(loc) : Classifica(r, loc) = "network-first"}}

\* the entries cache.put of the network-first branch may have left in a
\* bucket: for any of those URLs, any response the network gave
Escritas(loc) ==
    UNION {{[u \in D |-> o[u]] : o \in [D -> UNION {Outcomes([url |-> u]) \ {Lancou} : u \in D}]}
           : D \in SUBSET OwnUrls(loc)}

\* the bucket CACHE_NAME as earlier instances of this revision may have left
\* it: not there; or there, with or without the core assets of an
\* installation, with the entries the network-first branch has written
Proprios(v, loc) ==
    {<< >>} \cup
    UNION {{ << [name |-> CACHE_NAME(v), entries |-> e] >>,
             << [name |-> CACHE_NAME(v), entries |-> Instalado(v, loc)[1].entries @@ e] >> }
           : e \in {w \in Escritas(loc) : \A u \in DOMAIN w : w[u].url = u}}

\* the sequences that hold every bucket of B once: caches.keys() gives the
\* buckets in the order of their creation
Ordens(B) ==
    {s \in [1..Cardinality(B) -> B] : \A i, j \in 1..Cardinality(B) : i # j => s[i] # s[j]}

\* this revision is registered with Cache Storage holding what earlier workers
\* of the origin have left: the buckets any of the other revisions installed,
\* and its own bucket as its earlier instances left it
InitCleanup ==
    /\ impl \in Impls
    /\ SyncParado
    /\ location \in Locations
    /\ phase = "install"
    /\ anterior = "none"
    /\ \E S \in SUBSET (Impls \ {impl}) : \E own \in Proprios(impl, location) :
         cache \in Ordens({Instalado(v, location)[1] : v \in S} \cup
                          {own[k] : k \in 1..Len(own)})
    /\ fetches = EmptyBag
    /\ entregue = NaoEntregue
    /\ limpeza = SemLimpeza
    /\ runs = << >>

\* the install and activate listeners, the install listener run again
NextCleanup ==
    \/ \E ok \in BOOLEAN : InstallOpen(ok)
    \/ \E ok \in BOOLEAN : InstallAddAll(ok)
    \/ \E ok \in BOOLEAN : ActivateKeys(ok)
    \/ \E name \in limpeza.pendentes, ok \in BOOLEAN : DeleteSettle(name, ok)
    \/ Claim
    \/ ActivateFail
    \/ Reinstall

SpecCleanup == InitCleanup /\ [][NextCleanup]_vars

\* this revision is registered, its own bucket as its earlier instances left
\* it and no bucket of another revision
InitInstall ==
    /\ impl \in Impls
    /\ SyncParado
    /\ location \in Locations
    /\ phase = "install"
    /\ anterior = "none"
    /\ cache \in Proprios(impl, location)
    /\ fetches = EmptyBag
    /\ entregue = NaoEntregue
    /\ limpeza = SemLimpeza
    /\ runs = << >>

\* the install and activate listeners, the install listener run again, and
\* the fetch listener of the instance that is active meanwhile; with no bucket
\* of another revision the activation has nothing to delete
NextInstall ==
    \/ Esquece
    \/ /\ entregue = NaoEntregue
       /\ \/ \E ok \in BOOLEAN : InstallOpen(ok)
          \/ \E ok \in BOOLEAN : InstallAddAll(ok)
          \/ \E ok \in BOOLEAN : ActivateKeys(ok)
          \/ Claim
          \/ Reinstall
          \/ \E req \in Requests(location) :
                BagCardinality(fetches) < MaxDurante /\ FetchEvent(req)
          \/ \E f \in Fetching : \E out \in Outcomes(f.req) : NetSettle(f, out)
          \/ \E f \in Fetching, ok \in BOOLEAN : CdnMatch(f, ok)
          \/ \E f \in Fetching : \E out \in Outcomes(f.req) : CdnNetSettle(f, out)
          \/ \E f \in Fetching : \E out \in Outcomes(f.req) : SoNetSettle(f, out)
          \/ \E f \in Fetching, ok \in BOOLEAN : SoMatch(f, ok)
          \/ \E f \in Fetching, ok \in BOOLEAN : SoRoot(f, ok)
          \/ \E f \in Fetching, ok \in BOOLEAN : CacheOpen(f, ok)
          \/ \E f \in Fetching, ok \in BOOLEAN : CachePut(f, ok)

SpecInstall == InitInstall /\ [][NextInstall]_vars

(***************************************************************************)
(* Properties of the reconciler.                                           *)
(***************************************************************************)
Acabou == ultimo.pc = "done"

Respostas(x, como) == {r[1] : r \in {r \in x.res : r[2] = como}}

\* C1 (partial-batch resilience): when a pass that ran alone returns, having
\* had some submissions answered with a success status and some with a
\* non-success status, every record whose submission succeeded is stored with
\* sincronizado = true and a server identifier, and every record whose
\* submission did not is stored unsynced and as it was read.
C1_PartialBatch ==
    (/\ Acabou
     /\ ultimo.fim = "returned"
     /\ ultimo.sozinho
     /\ Respostas(ultimo, "ok") # {}
     /\ Respostas(ultimo, "erro") # {})
    => /\ \A i \in Respostas(ultimo, "ok") :
            store[i].sincronizado /\ store[i].serverId # Absent
       /\ \A i \in Respostas(ultimo, "erro") :
            ~store[i].sincronizado /\ store[i] = ultimo.forms[i]

\* C2 (success write-back): the record a pass writes back after a success
\* response carrying insertId = n has sincronizado = true, serverId = n, a
\* non-empty syncedAt, and the chaveUnica and domain fields it was read with.
C2_WriteBack ==
    gravado # NaoGravou =>
        LET r == store[gravado.id]
        IN  /\ r.sincronizado
            /\ r.serverId \in InsertIds
            /\ r.serverId = gravado.insertId
            /\ r.syncedAt # Absent
            /\ r.chaveUnica = gravado.lido.chaveUnica
            /\ Dominio(r) = Dominio(gravado.lido)

\* C3 as claimed (no resubmission of synced records): no POST is issued for a
\* record whose flag in the store is true at the moment the POST is issued,
\* overlapping passes included.
C3_NoResubmitStored ==
    \A x \in Running : x.pc = "fetch" => ~x.stored

\* C3 as amended: no POST is issued for a record whose flag was true in the
\* array the issuing pass read with getAll; and when no other pass has been in
\* progress during the pass, the flag in the store is false too when the POST
\* is issued.
C3_NoResubmitRead ==
    \A x \in Running :
        x.pc = "fetch" =>
            /\ ~x.forms[x.form.id].sincronizado
            /\ x.sozinho => ~x.stored

\* a POST has left under overlapping passes for a record the store already
\* holds as synced, and the array read by that pass holds it as pending
C3_Witness ==
    \E x \in Running :
        x.pc = "fetch" /\ x.stored /\ ~x.sozinho /\ ~x.forms[x.form.id].sincronizado

\* C4 (immutability after sync): a write-back onto a record stored with
\* sincronizado = true leaves its chaveUnica and its serverId as they were.
C4_ImmutableAfterSync ==
    (gravado # NaoGravou /\ gravado.antes.sincronizado) =>
        /\ store[gravado.id].chaveUnica = gravado.antes.chaveUnica
        /\ store[gravado.id].serverId = gravado.antes.serverId

\* C5 (no-op on empty queue): a pass started on a store with no pending record
\* issues no POST, calls no db.put, and ends by returning (after catch, when
\* the store cannot be opened or read), never by a rejection.
C5_NoOpOnEmpty ==
    /\ \A x \in Running : x.vazia => x.pc \in {"openDB", "getAll"}
    /\ (Acabou /\ ultimo.vazia) =>
          /\ ultimo.fim \in {"returned", "caught"}
          /\ ultimo.res = {}
          /\ ultimo.k = 0
          /\ gravado = NaoGravou

\* a pass over a store that holds records, all of them synced, has returned
C5_Witness ==
    /\ Acabou
    /\ ultimo.vazia
    /\ ultimo.fim = "returned"
    /\ Len(ultimo.forms) > 0

\* C14 (a pass always ends without re-raising): wherever the failure happens
\* (openDB, getAll, JSON.stringify, fetch, response.json, db.put) the call ends
\* by returning after catch; in a pass that ran alone, the records written back
\* earlier in the pass are stored synced, and the record being processed when
\* the failure happened and every record after it are stored as they were
\* read, unsynced.
C14_NoReRaise ==
    Acabou =>
        /\ ultimo.fim \in {"returned", "caught"}
        /\ (ultimo.fim = "caught" /\ ultimo.sozinho) =>
              LET sel == Selecionar(impl, ultimo.forms)
              IN  /\ ultimo.em \in {"openDB", "getAll", "stringify", "fetch", "json", "put"}
                  /\ ultimo.em \in {"openDB", "getAll"} => ultimo.res = {}
                  /\ \A j \in 1..Len(sel) :
                        IF j < ultimo.k
                        THEN IF sel[j].id \in Respostas(ultimo, "ok")
                             THEN store[sel[j].id].sincronizado
                             ELSE store[sel[j].id] = sel[j]
                        ELSE /\ store[sel[j].id] = sel[j]
                             /\ ~store[sel[j].id].sincronizado

\* C14 witness: a batch pass that ran alone has ended in catch on the db.put
\* of its second record, after writing back the first.
C14_Witness ==
    /\ Acabou
    /\ ultimo.fim = "caught"
    /\ ultimo.sozinho
    /\ ultimo.em = "put"
    /\ ultimo.k = 2
    /\ store[Selecionar(impl, ultimo.forms)[1].id].sincronizado
    /\ ~store[Selecionar(impl, ultimo.forms)[2].id].sincronizado

\* C15 (the reconciler creates and deletes no record): no step of any pass,
\* alone or interleaved with others, changes the set of record identifiers of
\* the store, and in each record it changes at most sincronizado, syncedAt and
\* serverId.
C15_NoCreateDelete ==
    [][/\ DOMAIN store' = DOMAIN store
       /\ \A i \in DOMAIN store :
             /\ store'[i].id = store[i].id
             /\ store'[i].chaveUnica = store[i].chaveUnica
             /\ Dominio(store'[i]) = Dominio(store[i])]_vars

\* C15 witness: a write-back has just changed a record of a store of two.
C15_Witness ==
    /\ gravado # NaoGravou
    /\ store[gravado.id] # gravado.antes
    /\ store[gravado.id].id = gravado.antes.id
    /\ Len(store) = 2

\* C16 (idempotency token): every POST in flight, of any pass, carries as
\* chave the chaveUnica the store holds for the record it submits, so that the
\* endpoint, which keeps one record per chave, holds at most one record per
\* local record however many times the record is submitted.
C16_IdempotencyToken ==
    /\ \A x \in Running :
          x.pc = "fetch" =>
              /\ Payload(impl, x.form).chave = store[x.form.id].chaveUnica
              /\ Payload(impl, x.form).json_dados.id = x.form.id
    /\ \A i \in DOMAIN store : Cardinality({e \in remoto : e.id = i}) <= 1

\* C16 witness: a record has been written back a second time, that is, two of
\* its POSTs have been answered with success, and the endpoint holds one
\* record for it.
C16_Witness ==
    /\ gravado # NaoGravou
    /\ gravado.antes.sincronizado
    /\ Cardinality({e \in remoto : e.id = gravado.id}) = 1

\* C18 (processing order): a pass has one record in hand at a time; the batch
\* revision takes the pending records in the order getAll returned them, and
\* has the POST of a record in flight only when every record before it has
\* been answered and, if answered with success, written back; the
\* single-record revisions take the first record, in the order getAll returned
\* them, whose flag is false.
C18_ProcessingOrder ==
    \A x \in Running :
        x.pc \in {"fetch", "json", "put"} =>
            LET sel == Selecionar(impl, x.forms)
            IN  /\ x.k \in 1..Len(sel)
                /\ x.form.id = sel[x.k].id
                /\ \A j \in 1..(Len(sel) - 1) : sel[j].id < sel[j + 1].id
                /\ \A j \in 1..(x.k - 1) :
                      \/ sel[j].id \in Respostas(x, "erro")
                      \/ sel[j].id \in Respostas(x, "ok") /\ store[sel[j].id].sincronizado
                /\ \A j \in (x.k + 1)..Len(sel) :
                      sel[j].id \notin Respostas(x, "ok") \cup Respostas(x, "erro")
                /\ ~Batch(impl) =>
                      /\ x.k = 1
                      /\ Len(sel) = 1
                      /\ ~x.forms[x.form.id].sincronizado
                      /\ \A j \in 1..(x.form.id - 1) : x.forms[j].sincronizado

\* C18 witness: the batch revision has the POST of its second record in
\* flight, the first having been answered with success and written back.
C18_Witness ==
    \E x \in Running :
        /\ Batch(impl)
        /\ x.pc = "fetch"
        /\ x.k = 2
        /\ Selecionar(impl, x.forms)[1].id \in Respostas(x, "ok")
        /\ store[Selecionar(impl, x.forms)[1].id].sincronizado

\* C18, the single-record revisions: the second record of the scan is in hand,
\* the first being synced already.
C18_WitnessFind ==
    \E x \in Running :
        /\ ~Batch(impl)
        /\ x.pc = "fetch"
        /\ x.form.id = 2
        /\ x.forms[1].sincronizado

\* C17 (a refused record does not block the others): with sync events that
\* keep recurring, every pending record the endpoint accepts is eventually
\* stored with sincronizado = true, even with a pending record before it in
\* the scan that the endpoint refuses on every attempt.
C17_NoBlocking ==
    \A i \in 1..MaxRecords :
        (i \in DOMAIN store /\ i \notin Recusados /\ ~store[i].sincronizado)
            ~> (i \in DOMAIN store /\ store[i].sincronizado)

(***************************************************************************)
(* Properties of the request router.  entregue holds, for one step, the    *)
(* fetch event that has just settled.                                      *)
(***************************************************************************)
Respondeu == entregue # NaoEntregue

BackendRequest(req) == req.method = "GET" /\ IsBackend(req.url[1])

CdnRequest(req) == req.method = "GET" /\ ~IsBackend(req.url[1]) /\ IsCDN(req.url[1])

SameOriginRequest(req) ==
    /\ req.method = "GET"
    /\ ~IsBackend(req.url[1])
    /\ ~IsCDN(req.url[1])
    /\ req.url[1] = location

\* C6: a GET request to the backend host is answered with exactly one network
\* fetch, no cache read and no cache write, and the answer is what the network
\* fetch settled with (a response of any status, or the thrown failure),
\* whatever the cache holds for the URL.
C6_BackendNetworkOnly ==
    (Respondeu /\ BackendRequest(entregue.req)) =>
        /\ entregue.net = 1
        /\ entregue.reads = 0
        /\ entregue.writes = 0
        /\ entregue.rede \in Outcomes(entregue.req)
        /\ entregue.resposta = entregue.rede

\* C6 witness: a backend request has been answered from the network while the
\* cache held another response for its URL.
C6_Witness ==
    /\ Respondeu
    /\ BackendRequest(entregue.req)
    /\ Match(cache, entregue.req.url) # Undefined
    /\ entregue.resposta # Match(cache, entregue.req.url)
    /\ entregue.net = 1

\* C6, from nothing: a backend request has been answered with the failure its
\* network fetch threw, Cache Storage being empty (the installation could not
\* open the bucket) and the activation having failed.
C6_WitnessEmpty ==
    /\ Respondeu
    /\ BackendRequest(entregue.req)
    /\ ~IsCDN(location)
    /\ cache = << >>
    /\ limpeza.falhou
    /\ entregue.resposta = Lancou
    /\ entregue.net = 1

\* C7: a GET request to a CDN host is answered with the cached entry and no
\* network fetch when the lookup finds an entry; when it finds none the request
\* is answered with what exactly one network fetch settled with (the thrown
\* failure included); the cache is written in neither case. (A lookup that
\* itself fails is neither case: its failure is the answer, with no fetch.)
C7_CdnCacheFirst ==
    (Respondeu /\ CdnRequest(entregue.req)) =>
        /\ entregue.reads = 1
        /\ entregue.writes = 0
        /\ entregue.cached \in {Undefined, MatchLancou, Match(cache, entregue.req.url)}
        /\ entregue.cached.tipo = "response" =>
                /\ entregue.resposta = entregue.cached
                /\ entregue.resposta.url = entregue.req.url
                /\ entregue.net = 0
        /\ entregue.cached = Undefined =>
                /\ entregue.net = 1
                /\ entregue.rede \in Outcomes(entregue.req)
                /\ entregue.resposta = entregue.rede
        /\ entregue.cached = MatchLancou =>
                /\ entregue.net = 0
                /\ entregue.resposta = MatchLancou

\* C7 witness: a CDN request has been answered with its cached entry.
C7_Witness ==
    /\ Respondeu
    /\ CdnRequest(entregue.req)
    /\ entregue.cached.tipo = "response"
    /\ entregue.resposta = Match(cache, entregue.req.url)
    /\ entregue.net = 0

\* C7, the other case: on the application's host, after an activation that
\* failed, a CDN request without a cached entry has been answered with the
\* failure its network fetch threw, the cache left as the installation made it.
C7_WitnessMiss ==
    /\ Respondeu
    /\ CdnRequest(entregue.req)
    /\ ~IsCDN(location)
    /\ limpeza.falhou
    /\ entregue.cached = Undefined
    /\ entregue.resposta = Lancou
    /\ cache = Instalado(impl, location)

\* C7, the hit on a host that is a CDN's: the entry left in the bucket is the
\* answer there as well.
C7_WitnessHitCdnHost ==
    /\ Respondeu
    /\ CdnRequest(entregue.req)
    /\ IsCDN(location)
    /\ entregue.cached.tipo = "response"
    /\ entregue.resposta = entregue.cached
    /\ entregue.net = 0

\* the network fetch of the settled same-origin request gave a response
RedeRespondeu ==
    /\ Respondeu
    /\ SameOriginRequest(entregue.req)
    /\ entregue.rede \in Outcomes(entregue.req) \ {Lancou}

\* the network fetch of the settled same-origin request threw
RedeFalhou ==
    /\ Respondeu
    /\ SameOriginRequest(entregue.req)
    /\ entregue.rede = Lancou

\* C8 (as stated): when a same-origin GET request whose network fetch succeeded
\* is answered, the current bucket already holds the new response for its URL.
C8_BucketUpdatedBeforeReturn ==
    RedeRespondeu =>
        Entry(cache, CACHE_NAME(entregue.worker), entregue.req.url) = entregue.resposta

\* C8 (amended): when a same-origin GET request whose network fetch succeeded
\* is answered, the answer is the network response and the write of a copy of it
\* to the current bucket has been started and not waited for: the event is
\* still waiting on caches.open with that copy in hand. The entry of a URL in a
\* bucket changes only when cache.addAll of the install listener completes or
\* when the cache.put of an event already answered, its caches.open completed,
\* completes with the copy that event holds; when caches.open fails the write
\* ends there and Cache Storage is left as it was.
C8_WriteStartedAtReturn ==
    /\ [](RedeRespondeu =>
            /\ entregue.resposta = entregue.rede
            /\ entregue.writes = 1
            /\ \E f \in Fetching :
                  /\ f.req = entregue.req
                  /\ f.pc = "open"
                  /\ f.clone = entregue.resposta)
    /\ [][/\ \A i \in 1..Len(cache') : \A u \in DOMAIN cache'[i].entries :
              cache'[i].entries[u] # Entry(cache, cache'[i].name, u) =>
                 \/ /\ phase = "addAll"
                    /\ cache'[i].name = CACHE_NAME(impl)
                    /\ u \in {CORE_ASSETS(location)[k] : k \in 1..Len(CORE_ASSETS(location))}
                 \/ \E f \in Fetching :
                       /\ f.pc = "put"
                       /\ f.answers = 1
                       /\ f.req.url = u
                       /\ CACHE_NAME(f.worker) = cache'[i].name
                       /\ f.clone = cache'[i].entries[u]
                       /\ fetches' = fetches (-) SetToBag({f})
          /\ \A f \in Fetching :
                (f.pc = "open" /\ fetches' = fetches (-) SetToBag({f})) => cache' = cache
         ]_vars

\* C8 witness: a same-origin request has been answered with the network
\* response while Cache Storage holds no bucket at all (the first
\* installation could not open it), the write being still at caches.open.
C8_Witness ==
    /\ RedeRespondeu
    /\ cache = << >>
    /\ Entry(cache, CACHE_NAME(entregue.worker), entregue.req.url) # entregue.resposta
    /\ \E f \in Fetching : f.req = entregue.req /\ f.pc = "open"

\* C8, after the return: the bucket holds the response an answered event has
\* put in it.
C8_WitnessPut ==
    /\ phase = "active"
    /\ fetches = EmptyBag
    /\ \E i \in 1..Len(cache) : \E u \in DOMAIN cache[i].entries :
          /\ cache[i].name = CACHE_NAME(impl)
          /\ cache[i].entries[u].body = "novo"

\* C9: a same-origin GET request whose network fetch failed is answered with
\* its cached entry when there is one; otherwise a navigation is answered with
\* the cached root document and not with the synthetic 503; otherwise the
\* answer is the synthetic response of status 503 and body "Offline".
C9_FallbackOrdering ==
    RedeFalhou =>
        IF entregue.cached.tipo = "response"
        THEN entregue.resposta = entregue.cached
        ELSE IF entregue.req.mode = "navigate"
        THEN /\ entregue.resposta.tipo = "response"
             /\ entregue.resposta = Match(cache, INDEX_URL(location))
             /\ entregue.resposta # Offline
        ELSE /\ entregue.resposta = Offline
             /\ entregue.resposta.status = 503
             /\ entregue.resposta.body = "Offline"

\* C10: a same-origin GET request whose network fetch failed is always answered
\* with a response, never with a rejection or with no response.
C10_AlwaysRecovered ==
    RedeFalhou => entregue.resposta.tipo = "response"

\* C9 and C10, the failing input: on the application's host, Cache Storage
\* empty before the first installation, cache.addAll failed and left the
\* bucket empty; the worker is active, and an offline navigation with no entry
\* of its own is answered with the undefined result of the root lookup.
C10_FailingInput ==
    /\ RedeFalhou
    /\ ~IsCDN(location)
    /\ runs = <<AddAllFalhou>>
    /\ Len(cache) = 1 /\ cache[1].entries = << >>
    /\ entregue.req.mode = "navigate"
    /\ entregue.cached = Undefined
    /\ entregue.resposta = Undefined

\* the cache writes still going on for the URL of the request just settled
Escrevendo ==
    {w \in Fetching : w.pc \in {"open", "put", "put_detached"} /\ w.req.url = entregue.req.url}

C19_FailingInput ==
    /\ RedeFalhou
    /\ entregue.cached = MatchLancou
    /\ entregue.resposta = MatchLancou
    /\ \E w \in Escrevendo : w.pc \in {"open", "put"} /\ w.clone.tipo = "response"

\* C19, the reads that complete: with a write of a new response going on for
\* its URL, a fallback read has been answered with the old entry.
C19_ReadOld ==
    /\ RedeFalhou
    /\ entregue.cached.tipo = "response"
    /\ entregue.resposta = entregue.cached
    /\ \E w \in Escrevendo : w.pc \in {"open", "put"} /\ w.clone # entregue.cached

(***************************************************************************)
(* Properties of the cache lifecycle.                                      *)
(***************************************************************************)
\* the activation of this revision has completed: its deletions have all
\* succeeded and the clients have been claimed
Ativado == phase = "active" /\ limpeza.claimed

\* the URLs a cache lookup is made with
Lookups == {req.url : req \in Requests(location)} \cup {INDEX_URL(location)}

\* C11 (version isolation): once the activation of this version, following
\* another one, has completed, the only bucket is this version's and no cache
\* lookup returns an entry of the version before, whatever the interleaving of
\* the activation with fetch events and with the cache writes the worker of the
\* version before left in flight.
C11_VersionIsolation ==
    (Ativado /\ anterior # "none") =>
        /\ Names(cache) \subseteq {CACHE_NAME(impl)}
        /\ \A u \in Lookups : Match(cache, u) = Entry(cache, CACHE_NAME(impl), u)

\* C11, the failing input: src/unnamed/part_000 was active and src/sw.js has
\* completed its activation, and the bucket of part_000 is in Cache Storage
\* again, holding the response a fetch event of part_000 has put in it.
C11_FailingInput ==
    /\ impl = "sw.js"
    /\ anterior = "part_000"
    /\ Ativado
    /\ \E i \in 1..Len(cache) :
          /\ cache[i].name = CACHE_NAME("part_000")
          /\ <<location, "/historico.html">> \in DOMAIN cache[i].entries

\* the install listener has just run for the second time
InstalouDuasVezes == Len(runs) = 2 /\ phase = "installed"

CoreSet == {CORE_ASSETS(location)[i] : i \in 1..Len(CORE_ASSETS(location))}

\* the buckets of this version
Buckets == {i \in 1..Len(cache) : cache[i].name = CACHE_NAME(impl)}

\* the URLs the bucket of this version holds
Cached == UNION {DOMAIN cache[i].entries : i \in Buckets}

\* caches.open succeeded in both runs and an asset fetch failed in at most one
UmaFalha ==
    /\ \A i \in 1..2 : runs[i] \in {Cacheou, AddAllFalhou}
    /\ \E i \in 1..2 : runs[i] = Cacheou

\* a promise of the install listener settles
InstallStep == phase \in {"install", "addAll"} /\ phase' # phase

\* C12 (as stated): after two runs of the install listener for one version, an
\* asset fetch having failed in at most one of them, there is exactly one
\* bucket of that version and it holds exactly the core assets.
C12_IdempotentInstall ==
    (InstalouDuasVezes /\ UmaFalha) =>
        /\ Cardinality(Buckets) = 1
        /\ Cached = CoreSet

\* C12 (amended): after two runs of the install listener for one version, an
\* asset fetch having failed in at most one of them, there is exactly one
\* bucket of that version and it holds every core asset, each once, as a
\* response for its URL; and no step of the install listener removes an
\* entry, or adds or changes one that is not a core asset of this version's
\* bucket: what the network-first branch has written stays in the bucket.
C12_InstallAddsCore ==
    /\ []((InstalouDuasVezes /\ UmaFalha) =>
            /\ Cardinality(Buckets) = 1
            /\ CoreSet \subseteq Cached
            /\ \A u \in CoreSet :
                  /\ Entry(cache, CACHE_NAME(impl), u).tipo = "response"
                  /\ Entry(cache, CACHE_NAME(impl), u).url = u)
    /\ [][InstallStep =>
            /\ Len(cache') >= Len(cache)
            /\ \A i \in 1..Len(cache) :
                  /\ cache'[i].name = cache[i].name
                  /\ DOMAIN cache[i].entries \subseteq DOMAIN cache'[i].entries
            /\ \A i \in 1..Len(cache') : \A u \in DOMAIN cache'[i].entries :
                  cache'[i].entries[u] # Entry(cache, cache'[i].name, u) =>
                     /\ cache'[i].name = CACHE_NAME(impl)
                     /\ u \in CoreSet
                     /\ cache'[i].entries[u] = Response(u, 200, "instalado")
         ]_vars

\* C12 witness: the install listener has run twice, an asset fetch failed in
\* the first run only, and the one bucket of the version holds the core
\* assets and a response the network-first branch has written meanwhile.
C12_Witness ==
    /\ InstalouDuasVezes
    /\ runs[1] = AddAllFalhou
    /\ runs[2] = Cacheou
    /\ Cardinality(Buckets) = 1
    /\ \A u \in CoreSet : Entry(cache, CACHE_NAME(impl), u) = Response(u, 200, "instalado")
    /\ Cached \ CoreSet = {<<location, "/dados.json">>}
    /\ fetches = EmptyBag

\* C12, the failure in the second run: the first run cached the core assets,
\* an asset fetch failed in the second, and the bucket, to which no fetch
\* event has added a URL, holds exactly the core assets.
C12_WitnessExact ==
    /\ InstalouDuasVezes
    /\ runs[1] = Cacheou
    /\ runs[2] = AddAllFalhou
    /\ Cardinality(Buckets) = 1
    /\ Cached = CoreSet

\* C12, outside the claim's case: an asset fetch has failed in each of the two
\* runs and the bucket holds no core asset.
C12_BothFailed ==
    /\ InstalouDuasVezes
    /\ runs = <<AddAllFalhou, AddAllFalhou>>
    /\ Cardinality(Buckets) = 1
    /\ Cached = {}

\* C13 (routing classification): a request that is not a GET is not answered; a
\* GET is answered by one strategy, the first that applies of backend
\* (network-only), CDN (cache-first) and same-origin (network-first), so that a
\* hostname of two classes gets the earlier one's; a GET of no class is not
\* answered; no request is answered more than once.
C13_Classification ==
    /\ \A f \in Fetching : f.answers <= 1 /\ (f.answers = 1 => f.pc \in {"open", "put", "put_detached"})
    /\ Respondeu =>
         LET req == entregue.req
             host == req.url[1]
             unanswered == /\ entregue.via = "none"
                           /\ entregue.resposta = Default
                           /\ entregue.answers = 0
                           /\ entregue.net = 0 /\ entregue.reads = 0 /\ entregue.writes = 0
         IN  IF req.method # "GET" THEN unanswered
             ELSE IF IsBackend(host)
             THEN /\ entregue.via = "network-only" /\ entregue.answers = 1
                  /\ entregue.net = 1 /\ entregue.reads = 0 /\ entregue.writes = 0
             ELSE IF IsCDN(host)
             THEN /\ entregue.via = "cache-first" /\ entregue.answers = 1
                  /\ entregue.reads = 1 /\ entregue.writes = 0
             ELSE IF host = location
             THEN /\ entregue.via = "network-first" /\ entregue.answers = 1
                  /\ entregue.net = 1
             ELSE unanswered

\* C13 witness: a GET request to the worker's own host, which is a CDN host as
\* well, has been answered cache-first.
C13_Witness ==
    /\ Respondeu
    /\ entregue.req.method = "GET"
    /\ entregue.req.url[1] = location
    /\ IsCDN(location)
    /\ entregue.via = "cache-first"
    /\ entregue.answers = 1

\* C13, from nothing: on the application's host, Cache Storage empty and the
\* activation having failed, a request that is not a GET has been left
\* unanswered.
C13_WitnessEmpty ==
    /\ Respondeu
    /\ entregue.req.method # "GET"
    /\ ~IsCDN(location)
    /\ cache = << >>
    /\ limpeza.falhou
    /\ entregue.resposta = Default
    /\ entregue.answers = 0

\* C20 (activation cleanup ordering): the activate listener asks for the
\* deletion of every bucket Cache Storage holds when it is enumerated whose
\* name is not this version's, never of this version's; the clients are
\* claimed only once every one of those deletions has completed; when the
\* enumeration or a deletion fails the clients are not claimed.
C20_CleanupOrdering ==
    /\ [](/\ CACHE_NAME(impl) \notin limpeza.pedidos
          /\ limpeza.pedidos = limpeza.nomes \ {CACHE_NAME(impl)}
          /\ limpeza.pendentes \subseteq limpeza.pedidos
          /\ limpeza.claimed =>
                /\ limpeza.pendentes = {}
                /\ ~limpeza.falhou
                /\ phase = "active"
          /\ limpeza.falhou => ~limpeza.claimed)
    /\ [][/\ (phase = "installed" /\ phase' = "deleting") =>
                 /\ limpeza'.nomes = Names(cache)
                 /\ limpeza'.pedidos = Names(cache) \ {CACHE_NAME(impl)}
          /\ (~limpeza.claimed /\ limpeza'.claimed) =>
                 /\ phase = "deleting"
                 /\ limpeza.pendentes = {}
                 /\ ~limpeza.falhou
         ]_vars

\* C20 witness: the clients have been claimed after the deletions of the
\* buckets of the two other versions had been asked for and had both
\* completed, this version's bucket being kept.
C20_Witness ==
    /\ limpeza.claimed
    /\ limpeza.pedidos = {CACHE_NAME(v) : v \in Impls \ {impl}}
    /\ Cardinality(limpeza.pedidos) = 2
    /\ limpeza.pendentes = {}
    /\ CACHE_NAME(impl) \in limpeza.nomes
    /\ Names(cache) = {CACHE_NAME(impl)}

\* C20, between the deletions: one of two deletions has completed, the other
\* has not, and the clients are not claimed.
C20_WitnessBetween ==
    /\ phase = "deleting"
    /\ Cardinality(limpeza.pedidos) = 2
    /\ Cardinality(limpeza.pendentes) = 1
    /\ ~limpeza.falhou
    /\ ~limpeza.claimed

\* C20, the failure: one of two deletions has failed, the other has
\* completed, and the worker is active with the clients not claimed.
C20_WitnessFail ==
    /\ phase = "active"
    /\ limpeza.falhou
    /\ Cardinality(limpeza.pedidos) = 2
    /\ limpeza.pendentes = {}
    /\ ~limpeza.claimed

\* C20, the enumeration failing: no deletion is asked for and the clients are
\* not claimed.
C20_WitnessKeys ==
    /\ phase = "active"
    /\ limpeza.falhou
    /\ limpeza.nomes = {}
    /\ Len(cache) > 1
    /\ ~limpeza.claimed

============================================================================
